---- MODULE Spec2Model ----
(***************************************************************************)
(* Model of recur_scan/features.py: the feature functions computed for one *)
(* transaction against a transaction history.                              *)
(*                                                                         *)
(* Representation.                                                         *)
(*   - a str is a sequence of one-character strings, so that lower(),      *)
(*     split("-"), int() and the word-boundary searches are computed;      *)
(*   - an amount is a whole number of cents (4.99 is 499);                 *)
(*   - a float result is the exact rational <<num, den>> in lowest terms   *)
(*     (0.0 is <<0, 1>>); the two standard deviations are carried as the   *)
(*     rational under the square root;                                     *)
(*   - a dict is a function from key strings to rationals; a bool or an    *)
(*     int value v in a dict is <<v, 1>> (True == 1 in Python);            *)
(*   - a call either returns or raises: [exc, ret].                        *)
(***************************************************************************)
EXTENDS Integers, Sequences, FiniteSets, TLC

VARIABLES
    transaction,        \* the transaction the features are computed for
    all_transactions,   \* the history passed with it (a list of transactions)
    cache,              \* the lru_cache of _parse_date, least recently used first
    result,             \* the last call: [op, args, exc, ret]
    first_features      \* what the first get_features call of the run produced

vars == <<transaction, all_transactions, cache, result, first_features>>

(***************************************************************************)
(* Bounds of the model.                                                    *)
(***************************************************************************)
\* longest history of the periodicity-matcher runs
MaxHistMatcher == 3
\* longest history of the vendor-gap runs (temporal consistency, frequency)
MaxHistGaps == 4
\* longest history of the whole-vector runs
MaxHistFeatures == 3
\* longest history of the ratio-feature runs
MaxHistRatios == 3
\* longest history of the cache runs
MaxHistCache == 3
\* largest tolerance (n_days_off) tried
MaxOff == 2
\* capacity of the date cache in the model; the code's is 1024 (features.py:45),
\* scaled down so that evictions happen
CacheSize == 2

(***************************************************************************)
(* Python built-ins the code relies on.                                    *)
(***************************************************************************)
Abs(x) == IF x < 0 THEN -x ELSE x

RECURSIVE Gcd(_, _)
Gcd(a, b) == IF b = 0 THEN a ELSE Gcd(b, a % b)

\* the float n / d (n >= 0, d > 0), exactly
Rat(n, d) == LET g == Gcd(n, d) IN <<n \div g, d \div g>>

Zero == <<0, 1>>
Num(k) == <<k, 1>>
Bool(b) == IF b THEN <<1, 1>> ELSE <<0, 1>>

\* the value of an expression bound once: the one element of {e}
Only(S) == CHOOSE v \in S : TRUE

RECURSIVE Sum(_)
Sum(s) == IF s = <<>> THEN 0 ELSE Head(s) + Sum(Tail(s))

Max(s) == CHOOSE x \in {s[i] : i \in DOMAIN s} : \A j \in DOMAIN s : s[j] <= x
Min(s) == CHOOSE x \in {s[i] : i \in DOMAIN s} : \A j \in DOMAIN s : x <= s[j]

\* [x for x in s if P(x)]
Filter(s, P(_)) ==
    LET F[i \in 0..Len(s)] ==
            IF i = 0 THEN <<>>
            ELSE IF P(s[i]) THEN Append(F[i - 1], s[i]) ELSE F[i - 1]
    IN  F[Len(s)]

\* [f(x) for x in s]
Map(s, f(_)) == [i \in DOMAIN s |-> f(s[i])]

\* {f(x) for x in s}
SetOf(s) == {s[i] : i \in DOMAIN s}

\* sorted(s, key=...): stable; Less(a, b) is key(a) < key(b)
Insert(s, x, Less(_, _)) ==
    LET p == Cardinality({i \in DOMAIN s : ~Less(x, s[i])})
    IN  SubSeq(s, 1, p) \o <<x>> \o SubSeq(s, p + 1, Len(s))

Sorted(s, Less(_, _)) ==
    LET F[i \in 0..Len(s)] == IF i = 0 THEN <<>> ELSE Insert(F[i - 1], s[i], Less)
    IN  F[Len(s)]

IntLess(a, b) == a < b

\* str.lower()
UpperCase == <<"A","B","C","D","E","F","G","H","I","J","K","L","M",
               "N","O","P","Q","R","S","T","U","V","W","X","Y","Z">>
LowerCase == <<"a","b","c","d","e","f","g","h","i","j","k","l","m",
               "n","o","p","q","r","s","t","u","v","w","x","y","z">>
LowerChar(c) ==
    IF \E i \in DOMAIN UpperCase : UpperCase[i] = c
    THEN LowerCase[CHOOSE i \in DOMAIN UpperCase : UpperCase[i] = c]
    ELSE c
lower(s) == [i \in DOMAIN s |-> LowerChar(s[i])]

\* int(s) of a string of decimal digits
Digits == <<"0","1","2","3","4","5","6","7","8","9">>
DigitVal(c) == (CHOOSE i \in DOMAIN Digits : Digits[i] = c) - 1
RECURSIVE int(_)
int(s) == IF s = <<>> THEN 0 ELSE 10 * int(SubSeq(s, 1, Len(s) - 1)) + DigitVal(s[Len(s)])

\* s.split(sep)
RECURSIVE split(_, _)
split(s, sep) ==
    IF \A i \in DOMAIN s : s[i] # sep THEN <<s>>
    ELSE LET k == CHOOSE i \in DOMAIN s : s[i] = sep /\ \A j \in 1..(i - 1) : s[j] # sep
         IN  <<SubSeq(s, 1, k - 1)>> \o split(SubSeq(s, k + 1, Len(s)), sep)

\* str < str (lexicographic)
RECURSIVE StrLess(_, _)
StrLess(a, b) ==
    IF b = <<>> THEN FALSE
    ELSE IF a = <<>> THEN TRUE
    ELSE IF Head(a) = Head(b) THEN StrLess(Tail(a), Tail(b))
    ELSE LET Ord(c) == CHOOSE i \in DOMAIN Digits : Digits[i] = c
         IN  IF Head(a) = "-" THEN Head(b) # "-"
             ELSE IF Head(b) = "-" THEN FALSE
             ELSE Ord(Head(a)) < Ord(Head(b))

\* datetime.datetime.strptime(date_str, "%Y-%m-%d") of a well-formed string
strptime(date_str) ==
    LET f == split(date_str, "-")
    IN  [year |-> int(f[1]), month |-> int(f[2]), day |-> int(f[3])]

\* date.toordinal(): days since 0001-01-01 in the proleptic Gregorian calendar
IsLeap(y) == y % 4 = 0 /\ (y % 100 # 0 \/ y % 400 = 0)
DaysBeforeMonth == <<0, 31, 59, 90, 120, 151, 181, 212, 243, 273, 304, 334>>
toordinal(d) ==
    LET y == d.year - 1
    IN  y * 365 + y \div 4 - y \div 100 + y \div 400
        + DaysBeforeMonth[d.month]
        + (IF d.month > 2 /\ IsLeap(d.year) THEN 1 ELSE 0)
        + d.day

\* (a - b).days
days(a, b) == toordinal(a) - toordinal(b)

DateLess(a, b) == toordinal(a) < toordinal(b)

\* Counter(s).most_common(): distinct elements by descending count, first seen
\* first among equal counts
Count(s, x) == Cardinality({i \in DOMAIN s : s[i] = x})
RECURSIVE Distinct(_)
Distinct(s) ==
    IF s = <<>> THEN <<>>
    ELSE LET r == Distinct(SubSeq(s, 1, Len(s) - 1))
         IN  IF s[Len(s)] \in SetOf(r) THEN r ELSE r \o <<s[Len(s)]>>
\* mutant: the distinct elements in first-seen order, counts ignored
most_common_first_seen(s) == Distinct(s)

most_common(s) ==
    LET MoreOften(a, b) == Count(s, a) > Count(s, b)
    IN  Sorted(Distinct(s), MoreOften)

(***************************************************************************)
(* The string literals of the code, as character sequences.                *)
(***************************************************************************)
str_apple == <<"a","p","p","l","e">>
str_brigit == <<"b","r","i","g","i","t">>
str_cleo_ai == <<"c","l","e","o"," ","a","i">>
str_credit_genie == <<"c","r","e","d","i","t"," ","g","e","n","i","e">>
str_netflix == <<"n","e","t","f","l","i","x">>
str_spotify == <<"s","p","o","t","i","f","y">>
str_microsoft == <<"m","i","c","r","o","s","o","f","t">>
str_amazon_prime == <<"a","m","a","z","o","n"," ","p","r","i","m","e">>
str_at_t == <<"a","t","&","t">>
str_verizon == <<"v","e","r","i","z","o","n">>
str_spectrum == <<"s","p","e","c","t","r","u","m">>
str_geico == <<"g","e","i","c","o">>
str_hugo_insurance == <<"h","u","g","o"," ","i","n","s","u","r","a","n","c","e">>
str_google_storage == <<"g","o","o","g","l","e"," ","s","t","o","r","a","g","e">>
str_hulu == <<"h","u","l","u">>
str_insurance == <<"i","n","s","u","r","a","n","c","e">>
str_insur == <<"i","n","s","u","r">>
str_insuranc == <<"i","n","s","u","r","a","n","c">>
str_utility == <<"u","t","i","l","i","t","y">>
str_utilit == <<"u","t","i","l","i","t">>
str_energy == <<"e","n","e","r","g","y">>
str_t_mobile == <<"t","-","m","o","b","i","l","e">>

(***************************************************************************)
(* Vendor-name predicates.                                                 *)
(***************************************************************************)
get_is_always_recurring(t) ==
    lower(t.name) \in {str_google_storage, str_netflix, str_hulu, str_spotify}

\* re.search(r"\b(a|b|c)\b", name, re.IGNORECASE): \w is a letter, a digit or "_"
IsWordChar(c) ==
    \/ \E i \in DOMAIN LowerCase : LowerCase[i] = LowerChar(c)
    \/ \E i \in DOMAIN Digits : Digits[i] = c
    \/ c = "_"
WordAt(name, i) == i \in DOMAIN name /\ IsWordChar(name[i])
Boundary(name, i) == WordAt(name, i - 1) # WordAt(name, i)
re_search(alternatives, name) ==
    \E p \in alternatives, i \in DOMAIN name :
        /\ i + Len(p) - 1 <= Len(name)
        /\ lower(SubSeq(name, i, i + Len(p) - 1)) = p
        /\ Boundary(name, i)
        /\ Boundary(name, i + Len(p))

get_is_insurance(t) == re_search({str_insurance, str_insur, str_insuranc}, t.name)
get_is_utility(t) == re_search({str_utility, str_utilit, str_energy}, t.name)
get_is_phone(t) == re_search({str_at_t, str_t_mobile, str_verizon}, t.name)

(***************************************************************************)
(* The date cache: @lru_cache(maxsize) around strptime(...).date().        *)
(* A hit returns the stored value and makes the entry the most recent; a   *)
(* miss parses, stores, and evicts the least recently used entry when the  *)
(* cache is full.  Returns [value, cache].                                 *)
(***************************************************************************)
\* mutant: a hit returns the value of the most recent entry, whatever its key
parse_date_wrong_slot(c, date_str) ==
    IF \E i \in DOMAIN c : c[i].key = date_str
    THEN LET i == CHOOSE j \in DOMAIN c : c[j].key = date_str
         IN  [value |-> c[Len(c)].value,
              cache |-> SubSeq(c, 1, i - 1) \o SubSeq(c, i + 1, Len(c)) \o <<c[i]>>]
    ELSE LET e == [key |-> date_str, value |-> strptime(date_str)]
         IN  [value |-> e.value,
              cache |-> (IF Len(c) >= CacheSize THEN Tail(c) ELSE c) \o <<e>>]

parse_date(c, date_str) ==
    IF \E i \in DOMAIN c : c[i].key = date_str
    THEN LET i == CHOOSE j \in DOMAIN c : c[j].key = date_str
         IN  [value |-> c[i].value,
              cache |-> SubSeq(c, 1, i - 1) \o SubSeq(c, i + 1, Len(c)) \o <<c[i]>>]
    ELSE LET e == [key |-> date_str, value |-> strptime(date_str)]
         IN  [value |-> e.value,
              cache |-> (IF Len(c) >= CacheSize THEN Tail(c) ELSE c) \o <<e>>]

(***************************************************************************)
(* Periodicity matcher.                                                    *)
(***************************************************************************)
\* mutant: the remainder must hit a bound of the window instead of lying in it
is_days_apart_on_bounds(days_diff, n_days_apart, n_days_off) ==
    LET remainder == days_diff % n_days_apart
    IN  IF days_diff < n_days_apart - n_days_off THEN FALSE
        ELSE remainder = n_days_off \/ remainder = n_days_apart - n_days_off

\* mutant: the minimum-distance test is left out
is_days_apart_no_minimum(days_diff, n_days_apart, n_days_off) ==
    LET remainder == days_diff % n_days_apart
    IN  remainder <= n_days_off \/ remainder >= n_days_apart - n_days_off

\* the body of the loop of get_n_transactions_days_apart: is a candidate
\* days_diff days away counted?
is_days_apart(days_diff, n_days_apart, n_days_off) ==
    LET lower_remainder == n_days_apart - n_days_off
        upper_remainder == n_days_off
        remainder == days_diff % n_days_apart
    IN  IF days_diff < n_days_apart - n_days_off THEN FALSE
        ELSE remainder <= upper_remainder \/ remainder >= lower_remainder

\* returns [ret, cache]: the count and the date cache after the call.
\* Each local is bound once, as an assignment does: x \in {e} evaluates e to
\* a value before the body that uses it.
get_n_transactions_days_apart(c, t, txs, n_days_apart, n_days_off) ==
    LET Loop[i \in 0..Len(txs)] ==
            IF i = 0
            THEN Only({[n_txs |-> 0, date |-> first.value, cache |-> first.cache] :
                       first \in {parse_date(c, t.date)}})
            ELSE Only({Only({[n_txs |-> prev.n_txs
                                        + (IF is_days_apart(Abs(days(p.value, prev.date)),
                                                            n_days_apart, n_days_off)
                                           THEN 1 ELSE 0),
                              date |-> prev.date,
                              cache |-> p.cache] :
                             p \in {parse_date(prev.cache, txs[i].date)}}) :
                       prev \in {Loop[i - 1]}})
    IN  Only({[ret |-> last.n_txs, cache |-> last.cache] : last \in {Loop[Len(txs)]}})

\* returns [exc, ret, cache]; the division raises on an empty list
get_pct_transactions_days_apart(c, t, txs, n_days_apart, n_days_off) ==
    Only({IF Len(txs) = 0
          THEN [exc |-> "ZeroDivisionError", ret |-> Zero, cache |-> n.cache]
          ELSE [exc |-> "none", ret |-> Rat(n.ret, Len(txs)), cache |-> n.cache] :
          n \in {get_n_transactions_days_apart(c, t, txs, n_days_apart, n_days_off)}})

get_day(date) == int(split(date, "-")[3])

get_n_transactions_same_day(t, txs, n_days_off) ==
    LET Near(x) == Abs(get_day(x.date) - get_day(t.date)) <= n_days_off
    IN  Len(Filter(txs, Near))

get_pct_transactions_same_day(t, txs, n_days_off) ==
    IF Len(txs) = 0
    THEN [exc |-> "ZeroDivisionError", ret |-> Zero]
    ELSE [exc |-> "none", ret |-> Rat(get_n_transactions_same_day(t, txs, n_days_off), Len(txs))]

get_ends_in_99(t) == t.amount % 100 = 99

get_n_transactions_same_amount(t, txs) ==
    LET Same(x) == x.amount = t.amount
    IN  Len(Filter(txs, Same))

get_percent_transactions_same_amount(t, txs) ==
    IF txs = <<>>
    THEN [exc |-> "none", ret |-> Zero]
    ELSE LET Same(x) == x.amount = t.amount
         IN  [exc |-> "none", ret |-> Rat(Len(Filter(txs, Same)), Len(txs))]

(***************************************************************************)
(* Grouping helpers: the list comprehensions every scorer starts with.     *)
(***************************************************************************)
by_name(t, txs) == LET P(x) == x.name = t.name IN Filter(txs, P)
by_user(t, txs) == LET P(x) == x.user_id = t.user_id IN Filter(txs, P)
by_user_and_name(t, txs) ==
    LET P(x) == x.user_id = t.user_id /\ x.name = t.name IN Filter(txs, P)

\* sorted([strptime(t.date) for t in txs])
sorted_dates(txs) ==
    LET D(x) == strptime(x.date) IN Sorted(Map(txs, D), DateLess)

\* [(dates[i + 1] - dates[i]).days for i in range(len(dates) - 1)]
date_diffs_of(dates) == [i \in 1..(Len(dates) - 1) |-> days(dates[i + 1], dates[i])]

\* sum((x - mean) ** 2 for x in xs) / len(xs), the square of the code's std
variance(xs, scale) ==
    LET n == Len(xs)
        sq == [i \in DOMAIN xs |-> xs[i] * xs[i]]
    IN  Rat(n * Sum(sq) - Sum(xs) * Sum(xs), n * n * scale)


(***************************************************************************)
(* Recurrence classifier.                                                  *)
(***************************************************************************)
\* round(amount): to the nearest whole number, halves to the even one
round(amount) ==
    LET q == amount \div 100
        r == amount % 100
    IN  IF r < 50 \/ (r = 50 /\ q % 2 = 0) THEN q ELSE q + 1

\* mutant: the amount is truncated, not rounded
apple_rule_truncating(amount) == 10 * Abs(amount - 100 * (amount \div 100) + 1) < 1

\* abs(amount - round(amount) + 0.01) < 0.001, in cents: |.| < 0.1 cent
apple_rule(amount) == 10 * Abs(amount - 100 * round(amount) + 1) < 1

is_valid_recurring_transaction(t) ==
    LET vendor_name == lower(t.name)
        amount == t.amount
        always_recurring_vendors ==
            {str_netflix, str_spotify, str_microsoft, str_amazon_prime, str_at_t,
             str_verizon, str_spectrum, str_geico, str_hugo_insurance}
    IN  IF vendor_name = str_apple THEN apple_rule(amount)
        ELSE IF vendor_name = str_brigit THEN amount \in {999, 1499}
        ELSE IF vendor_name = str_cleo_ai THEN amount \in {399, 699}
        ELSE IF vendor_name = str_credit_genie THEN amount \in {349, 499}
        ELSE IF vendor_name \in always_recurring_vendors THEN TRUE
        ELSE TRUE

recurring_count_of(txs) == Len(Filter(txs, is_valid_recurring_transaction))

(***************************************************************************)
(* Scorers.  Each returns a dict; Merge(a, b) is {**a, **b}.               *)
(***************************************************************************)
Merge(a, b) == b @@ a

\* mutant: the middle element of the gaps as they come, not sorted
median_of_unsorted(date_diffs) == date_diffs[(Len(date_diffs) \div 2) + 1]

\* sorted(date_diffs)[len(date_diffs) // 2]
median_of(date_diffs) == Sorted(date_diffs, IntLess)[(Len(date_diffs) \div 2) + 1]

get_frequency_features(t, txs) ==
    LET merchant_transactions == by_name(t, txs)
        dates == sorted_dates(merchant_transactions)
        date_diffs == date_diffs_of(dates)
        avg_frequency == Rat(Sum(date_diffs), Len(date_diffs))
        median_frequency == median_of(date_diffs)
        std_frequency == variance(date_diffs, 1)
        date_variability == Max(date_diffs) - Min(date_diffs)
    IN  IF Len(merchant_transactions) < 2
        THEN ("frequency" :> Zero) @@ ("date_variability" :> Zero)
             @@ ("median_frequency" :> Zero) @@ ("std_frequency" :> Zero)
        ELSE ("frequency" :> avg_frequency) @@ ("date_variability" :> Num(date_variability))
             @@ ("median_frequency" :> Num(median_frequency))
             @@ ("std_frequency" :> std_frequency)

get_amount_features(t) ==
    ("is_amount_rounded" :> Bool(t.amount = 100 * round(t.amount)))
    @@ ("amount_category" :> Num(t.amount \div 1000))

get_vendor_features(t, txs) ==
    LET vendor_transactions == by_name(t, txs)
        Amount(x) == x.amount
        avg_amount ==
            IF vendor_transactions # <<>>
            THEN Rat(Sum(Map(vendor_transactions, Amount)), 100 * Len(vendor_transactions))
            ELSE Zero
    IN  ("n_transactions_with_vendor" :> Num(Len(vendor_transactions)))
        @@ ("avg_amount_for_vendor" :> avg_amount)

\* mutant: the element after the last occurrence of the date is taken
get_time_features_last_index(t, txs) ==
    LET date_obj == strptime(t.date)
        dates == sorted_dates(by_name(t, txs))
    IN  IF \A i \in DOMAIN dates : dates[i] # date_obj
        THEN [exc |-> "ValueError", ret |-> <<>>]
        ELSE LET index == CHOOSE i \in DOMAIN dates :
                              dates[i] = date_obj
                              /\ \A j \in (i + 1)..Len(dates) : dates[j] # date_obj
                 days_until_next ==
                     IF index < Len(dates) THEN days(dates[index + 1], date_obj) ELSE 0
             IN  [exc |-> "none",
                  ret |-> ("month" :> Num(date_obj.month))
                          @@ ("days_until_next_transaction" :> Num(days_until_next))]

\* returns [exc, ret]: dates.index(date_obj) raises when no vendor date equals it
get_time_features(t, txs) ==
    LET date_obj == strptime(t.date)
        dates == sorted_dates(by_name(t, txs))
    IN  IF \A i \in DOMAIN dates : dates[i] # date_obj
        THEN [exc |-> "ValueError", ret |-> <<>>]
        ELSE LET index == CHOOSE i \in DOMAIN dates :
                              dates[i] = date_obj /\ \A j \in 1..(i - 1) : dates[j] # date_obj
                 days_until_next ==
                     IF index < Len(dates) THEN days(dates[index + 1], date_obj) ELSE 0
             IN  [exc |-> "none",
                  ret |-> ("month" :> Num(date_obj.month))
                          @@ ("days_until_next_transaction" :> Num(days_until_next))]

get_user_recurrence_rate(t, txs) ==
    LET user_transactions == by_user(t, txs)
    IN  IF Len(user_transactions) < 2
        THEN "user_recurrence_rate" :> Zero
        ELSE "user_recurrence_rate"
                 :> Rat(recurring_count_of(user_transactions), Len(user_transactions))

get_user_specific_features(t, txs) ==
    LET user_transactions == by_user(t, txs)
        recurring_count == recurring_count_of(user_transactions)
    IN  IF Len(user_transactions) < 2
        THEN ("user_transaction_count" :> Zero)
             @@ ("user_recurring_transaction_count" :> Zero)
             @@ ("user_recurring_transaction_rate" :> Zero)
        ELSE ("user_transaction_count" :> Num(Len(user_transactions)))
             @@ ("user_recurring_transaction_count" :> Num(recurring_count))
             @@ ("user_recurring_transaction_rate"
                     :> Rat(recurring_count, Len(user_transactions)))

get_user_recurring_vendor_count(t, txs) ==
    LET user_transactions == by_user(t, txs)
        recurring_vendors ==
            {x.name : x \in SetOf(Filter(user_transactions, is_valid_recurring_transaction))}
    IN  "user_recurring_vendor_count" :> Num(Cardinality(recurring_vendors))

\* the mean gap of a group sorted by its date strings
mean_gap_by_date_string(txs) ==
    LET Earlier(a, b) == StrLess(a.date, b.date)
        D(x) == strptime(x.date)
        dates == Map(Sorted(txs, Earlier), D)
        date_diffs == date_diffs_of(dates)
    IN  Rat(Sum(date_diffs), Len(date_diffs))

get_user_transaction_frequency(t, txs) ==
    LET user_transactions == by_user(t, txs)
    IN  IF Len(user_transactions) < 2
        THEN "user_transaction_frequency" :> Zero
        ELSE "user_transaction_frequency" :> mean_gap_by_date_string(user_transactions)

get_vendor_amount_std(t, txs) ==
    LET vendor_transactions == by_name(t, txs)
        Amount(x) == x.amount
    IN  IF Len(vendor_transactions) < 2
        THEN "vendor_amount_std" :> Zero
        ELSE "vendor_amount_std" :> variance(Map(vendor_transactions, Amount), 10000)

get_vendor_recurring_user_count(t, txs) ==
    LET vendor_transactions == by_name(t, txs)
        recurring_users ==
            {x.user_id : x \in SetOf(Filter(vendor_transactions, is_valid_recurring_transaction))}
    IN  "vendor_recurring_user_count" :> Num(Cardinality(recurring_users))

get_vendor_transaction_frequency(t, txs) ==
    LET vendor_transactions == by_name(t, txs)
    IN  IF Len(vendor_transactions) < 2
        THEN "vendor_transaction_frequency" :> Zero
        ELSE "vendor_transaction_frequency" :> mean_gap_by_date_string(vendor_transactions)

get_user_vendor_transaction_count(t, txs) ==
    "user_vendor_transaction_count" :> Num(Len(by_user_and_name(t, txs)))

get_user_vendor_recurrence_rate(t, txs) ==
    LET user_vendor_transactions == by_user_and_name(t, txs)
    IN  IF Len(user_vendor_transactions) < 1
        THEN "user_vendor_recurrence_rate" :> Zero
        ELSE "user_vendor_recurrence_rate"
                 :> Rat(recurring_count_of(user_vendor_transactions),
                        Len(user_vendor_transactions))

get_user_vendor_interaction_count(t, txs) ==
    "user_vendor_interaction_count" :> Num(Len(by_user_and_name(t, txs)))

get_amount_category(t) ==
    LET amount == t.amount
    IN  IF amount < 1000 THEN "amount_category" :> Num(0)
        ELSE IF 1000 <= amount /\ amount < 2000 THEN "amount_category" :> Num(1)
        ELSE IF 2000 <= amount /\ amount < 5000 THEN "amount_category" :> Num(2)
        ELSE "amount_category" :> Num(3)

\* the float tests amount - int(amount) >= 0.98 and (amount * 100) % 100 == 99 are
\* taken exactly; binary rounding answers differently for some amounts (19.99)
get_amount_pattern_features(t, txs) ==
    LET amount == t.amount
        Amount(x) == x.amount
        vendor_amounts == Map(by_name(t, txs), Amount)
        is_common_recurring_amount ==
            \/ amount \in {599, 999, 1499, 1999, 2999, 3999, 4999, 9999}
            \/ amount % 100 >= 98
        common_amounts ==
            LET mc == most_common(vendor_amounts)
            IN  SubSeq(mc, 1, IF Len(mc) < 3 THEN Len(mc) ELSE 3)
        is_common_for_vendor ==
            IF vendor_amounts # <<>> THEN amount \in SetOf(common_amounts) ELSE FALSE
    IN  ("is_common_recurring_amount" :> Bool(is_common_recurring_amount))
        @@ ("is_common_for_vendor" :> Bool(is_common_for_vendor))
        @@ ("amount_decimal_part" :> Rat(amount % 100, 100))

\* x / total > 0.7
exceeds_threshold(x, total) == 10 * x > 7 * total

\* mutant: the monthly range reaches down into the weekly one
is_monthly_gap_overlapping(diff) == 6 <= diff /\ diff <= 31
is_monthly_gap(diff) == 28 <= diff /\ diff <= 31
\* mutant: only a gap of exactly 7 days is weekly
is_weekly_gap_exact(diff) == diff = 7
is_weekly_gap(diff) == 6 <= diff /\ diff <= 8

get_temporal_consistency_features(t, txs) ==
    LET vendor_transactions == by_name(t, txs)
        dates == sorted_dates(vendor_transactions)
        date_diffs == date_diffs_of(dates)
        monthly_diffs == Filter(date_diffs, is_monthly_gap)
        weekly_diffs == Filter(date_diffs, is_weekly_gap)
    IN  IF Len(vendor_transactions) < 3
        THEN ("temporal_consistency_score" :> Zero)
             @@ ("is_monthly_consistent" :> Num(0))
             @@ ("is_weekly_consistent" :> Num(0))
        ELSE ("temporal_consistency_score"
                 :> Rat(Len(monthly_diffs) + Len(weekly_diffs), 2 * Len(date_diffs)))
             @@ ("is_monthly_consistent"
                 :> Bool(exceeds_threshold(Len(monthly_diffs), Len(date_diffs))))
             @@ ("is_weekly_consistent"
                 :> Bool(exceeds_threshold(Len(weekly_diffs), Len(date_diffs))))

get_vendor_recurrence_profile(t, txs) ==
    LET vendor_name == lower(t.name)
        SameVendor(x) == lower(x.name) = vendor_name
        vendor_transactions == Filter(txs, SameVendor)
        total_vendor_transactions == Len(vendor_transactions)
        recurring_users ==
            {x.user_id : x \in SetOf(Filter(vendor_transactions, is_valid_recurring_transaction))}
        Amount(x) == x.amount
        amounts == Map(vendor_transactions, Amount)
        count == Count(amounts, most_common(amounts)[1])
        common_recurring_vendors ==
            {str_netflix, str_spotify, str_microsoft, str_amazon_prime, str_at_t,
             str_verizon, str_spectrum, str_geico, str_hugo_insurance}
    IN  IF total_vendor_transactions = 0
        THEN ("vendor_recurrence_score" :> Zero)
             @@ ("vendor_recurrence_consistency" :> Zero)
             @@ ("vendor_is_common_recurring" :> Num(0))
        ELSE ("vendor_recurrence_score"
                 :> Rat(Cardinality(recurring_users),
                        Cardinality({x.user_id : x \in SetOf(vendor_transactions)})))
             @@ ("vendor_recurrence_consistency" :> Rat(count, total_vendor_transactions))
             @@ ("vendor_is_common_recurring"
                 :> Bool(vendor_name \in common_recurring_vendors))

\* mutant: the operands of the dependency ratio are swapped
relationship_swapped(t, txs) ==
    LET user_vendor_transactions == by_user_and_name(t, txs)
        user_transactions == by_user(t, txs)
    IN  IF user_transactions = <<>>
        THEN ("user_vendor_dependency" :> Zero) @@ ("user_vendor_tenure" :> Zero)
        ELSE ("user_vendor_dependency"
                 :> Rat(Len(user_transactions), Len(user_vendor_transactions)))
             @@ ("user_vendor_tenure" :> Num(0))
             @@ ("user_vendor_transaction_span" :> Num(0))

get_user_vendor_relationship_features(t, txs) ==
    LET user_vendor_transactions == by_user_and_name(t, txs)
        user_transactions == by_user(t, txs)
        dependency == Rat(Len(user_vendor_transactions), Len(user_transactions))
        D(x) == toordinal(strptime(x.date))
        dates == Map(user_vendor_transactions, D)
        tenure == IF user_vendor_transactions # <<>> THEN Max(dates) - Min(dates) ELSE 0
    IN  IF user_transactions = <<>>
        THEN ("user_vendor_dependency" :> Zero) @@ ("user_vendor_tenure" :> Zero)
        ELSE ("user_vendor_dependency" :> dependency)
             @@ ("user_vendor_tenure" :> Num(tenure))
             @@ ("user_vendor_transaction_span" :> Num(tenure))


(***************************************************************************)
(* get_features: the dict display {**a, **b, "k": v, ...}.  Its items are  *)
(* evaluated in source order, a later item replacing an earlier one with   *)
(* the same key; the first item that raises ends the call.                 *)
(***************************************************************************)
\* the eight days-apart items, evaluated in source order from cache c: each
\* call starts from the cache the one before it left
days_apart_items(c, t, txs) ==
    Only({Only({Only({Only({Only({Only({Only({Only({
        [exc |-> p14_0.exc,
         cache |-> IF p14_0.exc # "none" THEN p14_0.cache ELSE p7_1.cache,
         ret |-> <<"14_days_apart_exact" :> Num(n14_0.ret),
                   "pct_14_days_apart_exact" :> p14_0.ret,
                   "14_days_apart_off_by_1" :> Num(n14_1.ret),
                   "pct_14_days_apart_off_by_1" :> p14_1.ret,
                   "7_days_apart_exact" :> Num(n7_0.ret),
                   "pct_7_days_apart_exact" :> p7_0.ret,
                   "7_days_apart_off_by_1" :> Num(n7_1.ret),
                   "pct_7_days_apart_off_by_1" :> p7_1.ret>>] :
        p7_1 \in {get_pct_transactions_days_apart(n7_1.cache, t, txs, 7, 1)}}) :
        n7_1 \in {get_n_transactions_days_apart(p7_0.cache, t, txs, 7, 1)}}) :
        p7_0 \in {get_pct_transactions_days_apart(n7_0.cache, t, txs, 7, 0)}}) :
        n7_0 \in {get_n_transactions_days_apart(p14_1.cache, t, txs, 7, 0)}}) :
        p14_1 \in {get_pct_transactions_days_apart(n14_1.cache, t, txs, 14, 1)}}) :
        n14_1 \in {get_n_transactions_days_apart(p14_0.cache, t, txs, 14, 1)}}) :
        p14_0 \in {get_pct_transactions_days_apart(n14_0.cache, t, txs, 14, 0)}}) :
        n14_0 \in {get_n_transactions_days_apart(c, t, txs, 14, 0)}})

\* the items of the display, in source order, when none of them raises
feature_items(apart, t, txs) ==
    <<get_user_recurring_vendor_count(t, txs),
      get_user_transaction_frequency(t, txs),
      get_vendor_amount_std(t, txs),
      get_vendor_recurring_user_count(t, txs),
      get_vendor_transaction_frequency(t, txs),
      get_user_vendor_transaction_count(t, txs),
      get_user_vendor_recurrence_rate(t, txs),
      get_user_vendor_interaction_count(t, txs),
      get_amount_category(t),
      get_amount_pattern_features(t, txs),
      get_temporal_consistency_features(t, txs),
      get_vendor_recurrence_profile(t, txs),
      get_user_vendor_relationship_features(t, txs),
      "n_transactions_same_amount" :> Num(get_n_transactions_same_amount(t, txs)),
      "percent_transactions_same_amount" :> get_percent_transactions_same_amount(t, txs).ret,
      get_frequency_features(t, txs),
      get_amount_features(t),
      get_vendor_features(t, txs),
      get_time_features(t, txs).ret,
      get_user_recurrence_rate(t, txs),
      "is_recurring" :> Bool(is_valid_recurring_transaction(t)),
      get_user_specific_features(t, txs),
      "ends_in_99" :> Bool(get_ends_in_99(t)),
      "amount" :> Rat(t.amount, 100),
      "same_day_exact" :> Num(get_n_transactions_same_day(t, txs, 0)),
      "pct_transactions_same_day" :> get_pct_transactions_same_day(t, txs, 0).ret,
      "same_day_off_by_1" :> Num(get_n_transactions_same_day(t, txs, 1)),
      "same_day_off_by_2" :> Num(get_n_transactions_same_day(t, txs, 2))>>
    \o apart.ret
    \o <<"is_insurance" :> Bool(get_is_insurance(t)),
         "is_utility" :> Bool(get_is_utility(t)),
         "is_phone" :> Bool(get_is_phone(t)),
         "is_always_recurring" :> Bool(get_is_always_recurring(t))>>

RECURSIVE MergeAll(_)
MergeAll(items) ==
    IF items = <<>> THEN <<>>
    ELSE Merge(MergeAll(SubSeq(items, 1, Len(items) - 1)), items[Len(items)])

\* returns [exc, ret, cache]
get_features(c, t, txs) ==
    Only({Only({Only({
        IF time.exc # "none" THEN [exc |-> time.exc, ret |-> <<>>, cache |-> c]
        ELSE IF same_day.exc # "none" THEN [exc |-> same_day.exc, ret |-> <<>>, cache |-> c]
        ELSE IF apart.exc # "none" THEN [exc |-> apart.exc, ret |-> <<>>, cache |-> apart.cache]
        ELSE [exc |-> "none", ret |-> MergeAll(feature_items(apart, t, txs)),
              cache |-> apart.cache] :
        apart \in {days_apart_items(c, t, txs)}}) :
        same_day \in {get_pct_transactions_same_day(t, txs, 0)}}) :
        time \in {get_time_features(t, txs)}})

(***************************************************************************)
(* Inputs: the date strings and vendor names the runs draw from.           *)
(***************************************************************************)
date_2024_01_01 == <<"2","0","2","4","-","0","1","-","0","1">>
date_2024_01_02 == <<"2","0","2","4","-","0","1","-","0","2">>
date_2024_01_07 == <<"2","0","2","4","-","0","1","-","0","7">>
date_2024_01_08 == <<"2","0","2","4","-","0","1","-","0","8">>
date_2024_01_15 == <<"2","0","2","4","-","0","1","-","1","5">>
date_2024_01_29 == <<"2","0","2","4","-","0","1","-","2","9">>
date_2024_02_26 == <<"2","0","2","4","-","0","2","-","2","6">>
date_2024_03_01 == <<"2","0","2","4","-","0","3","-","0","1">>
name_Apple == <<"A","p","p","l","e">>
name_apple == <<"a","p","p","l","e">>
name_APPLE == <<"A","P","P","L","E">>
name_Apple_Inc == <<"A","p","p","l","e"," ","I","n","c">>
name_Brigit == <<"B","r","i","g","i","t">>
name_Cleo_AI == <<"C","l","e","o"," ","A","I">>
name_Credit_Genie == <<"C","r","e","d","i","t"," ","G","e","n","i","e">>
name_Netflix == <<"N","e","t","f","l","i","x">>
name_Hulu == <<"H","u","l","u">>
name_Spotify == <<"S","p","o","t","i","f","y">>
name_ATT == <<"A","T","&","T">>
name_Geico_Insurance == <<"G","e","i","c","o"," ","I","n","s","u","r","a","n","c","e">>

Tx(u, n, a, d) == [user_id |-> u, name |-> n, amount |-> a, date |-> d]

\* every list of at most n elements of S
ListsUpTo(S, n) == UNION {[1..k -> S] : k \in 0..n}

\* periodicity runs: one user and vendor, dates 1, 6, 7, 13, 14 days apart and
\* one across the leap day
MatcherTxs ==
    {Tx("u1", name_Netflix, 1599, d) :
        d \in {date_2024_01_01, date_2024_01_02, date_2024_01_08, date_2024_01_15,
               date_2024_03_01}}
Intervals == {2, 7, 14}

\* classifier runs
ClassifierNames ==
    {name_Apple, name_apple, name_APPLE, name_Apple_Inc, name_Brigit, name_Cleo_AI,
     name_Credit_Genie, name_Netflix, name_Hulu, name_ATT, name_Geico_Insurance}
ClassifierAmounts == {0, 99, 349, 399, 450, 499, 500, 699, 999, 1000, 1499, 1599}

\* vendor-gap runs: one vendor with gaps of 6, 8, 14, 28 days, and another vendor
GapTxs ==
    {Tx("u1", name_Spotify, 999, d) :
        d \in {date_2024_01_01, date_2024_01_07, date_2024_01_15,
               date_2024_01_29, date_2024_02_26}}
    \cup {Tx("u1", name_Hulu, 999, date_2024_01_08)}
GapTargets == {Tx("u1", name_Spotify, 999, date_2024_01_01),
               Tx("u1", name_Hulu, 999, date_2024_01_08)}

\* whole-vector runs: two users, vendor names differing in case only, amounts
\* that pass and fail the apple rule, dates a week apart
FeatureTxs ==
    {Tx("u1", name_Apple, 499, date_2024_01_01),
     Tx("u1", name_Apple, 5000, date_2024_01_08),
     Tx("u2", name_Apple, 499, date_2024_01_15),
     Tx("u2", name_apple, 5000, date_2024_01_01),
     Tx("u2", name_Apple, 5000, date_2024_01_01),
     Tx("u1", name_Hulu, 1499, date_2024_01_29)}

\* ratio-feature runs
RatioTxs ==
    {Tx("u1", name_Apple, 499, date_2024_01_01),
     Tx("u1", name_Apple, 5000, date_2024_01_08),
     Tx("u1", name_Hulu, 1499, date_2024_01_15),
     Tx("u2", name_apple, 499, date_2024_01_08)}

\* cache runs: more distinct dates than the cache holds
CacheTxs ==
    {Tx("u1", name_Apple, 499, date_2024_01_01),
     Tx("u1", name_Apple, 5000, date_2024_01_08),
     Tx("u2", name_Apple, 499, date_2024_01_15)}
CacheDates == {date_2024_01_01, date_2024_01_08, date_2024_01_15}

NoResult == [op |-> "none", args |-> <<>>, exc |-> "none", ret |-> 0]
NoFeatures == [calls |-> 0, exc |-> "none", ret |-> <<>>]

(***************************************************************************)
(* Initial states: the arguments of the calls, the cache empty.            *)
(***************************************************************************)
InitWith(targets, txs, n) ==
    /\ transaction \in targets
    /\ all_transactions \in ListsUpTo(txs, n)
    /\ cache = <<>>
    /\ result = NoResult
    /\ first_features = NoFeatures

Init == InitWith(RatioTxs, RatioTxs, MaxHistRatios)
InitFeatures == InitWith(FeatureTxs, FeatureTxs, MaxHistFeatures)
InitMatcher == InitWith(MatcherTxs, MatcherTxs, MaxHistMatcher)
InitClassifier ==
    InitWith({Tx("u1", n, a, date_2024_01_01) : n \in ClassifierNames, a \in ClassifierAmounts},
             {}, 0)
InitGaps == InitWith(GapTargets, GapTxs, MaxHistGaps)
InitCache == InitWith(CacheTxs, CacheTxs, MaxHistCache)

(***************************************************************************)
(* Actions: one per call of a function of the module.                      *)
(***************************************************************************)
Returned(op, args, exc, ret) ==
    /\ result' = [op |-> op, args |-> args, exc |-> exc, ret |-> ret]
    /\ UNCHANGED <<transaction, all_transactions>>

CallParseDate ==
    \E d \in CacheDates :
        LET r == parse_date(cache, d)
        IN  /\ Returned("_parse_date", <<d>>, "none", r.value)
            /\ cache' = r.cache
            /\ UNCHANGED first_features

CallCountNear ==
    \E n \in Intervals, off \in 0..MaxOff :
        LET r == get_n_transactions_days_apart(cache, transaction, all_transactions, n, off)
        IN  /\ Returned("get_n_transactions_days_apart", <<n, off>>, "none", r.ret)
            /\ cache' = r.cache
            /\ UNCHANGED first_features

CallPctNear ==
    \E n \in Intervals, off \in 0..MaxOff :
        LET r == get_pct_transactions_days_apart(cache, transaction, all_transactions, n, off)
        IN  /\ Returned("get_pct_transactions_days_apart", <<n, off>>, r.exc, r.ret)
            /\ cache' = r.cache
            /\ UNCHANGED first_features

CallPctSameDay ==
    \E off \in 0..MaxOff :
        LET r == get_pct_transactions_same_day(transaction, all_transactions, off)
        IN  /\ Returned("get_pct_transactions_same_day", <<off>>, r.exc, r.ret)
            /\ UNCHANGED <<cache, first_features>>

CallPctSameAmount ==
    LET r == get_percent_transactions_same_amount(transaction, all_transactions)
    IN  /\ Returned("get_percent_transactions_same_amount", <<>>, r.exc, r.ret)
        /\ UNCHANGED <<cache, first_features>>

CallIsValidRecurring ==
    /\ Returned("is_valid_recurring_transaction", <<>>, "none",
                is_valid_recurring_transaction(transaction))
    /\ UNCHANGED <<cache, first_features>>

CallFrequency ==
    /\ Returned("get_frequency_features", <<>>, "none",
                get_frequency_features(transaction, all_transactions))
    /\ UNCHANGED <<cache, first_features>>

CallTemporal ==
    /\ Returned("get_temporal_consistency_features", <<>>, "none",
                get_temporal_consistency_features(transaction, all_transactions))
    /\ UNCHANGED <<cache, first_features>>

CallVendorProfile ==
    /\ Returned("get_vendor_recurrence_profile", <<>>, "none",
                get_vendor_recurrence_profile(transaction, all_transactions))
    /\ UNCHANGED <<cache, first_features>>

CallUserRecurrenceRate ==
    /\ Returned("get_user_recurrence_rate", <<>>, "none",
                get_user_recurrence_rate(transaction, all_transactions))
    /\ UNCHANGED <<cache, first_features>>

CallUserVendorRecurrenceRate ==
    /\ Returned("get_user_vendor_recurrence_rate", <<>>, "none",
                get_user_vendor_recurrence_rate(transaction, all_transactions))
    /\ UNCHANGED <<cache, first_features>>

CallUserVendorRelationship ==
    /\ Returned("get_user_vendor_relationship_features", <<>>, "none",
                get_user_vendor_relationship_features(transaction, all_transactions))
    /\ UNCHANGED <<cache, first_features>>

CallTimeFeatures ==
    \E r \in {get_time_features(transaction, all_transactions)} :
        /\ Returned("get_time_features", <<>>, r.exc, r.ret)
        /\ UNCHANGED <<cache, first_features>>

CallGetFeatures ==
    \E r \in {get_features(cache, transaction, all_transactions)} :
        /\ Returned("get_features", <<>>, r.exc, r.ret)
        /\ cache' = r.cache
        /\ first_features' =
               IF first_features.calls = 0
               THEN [calls |-> 1, exc |-> r.exc, ret |-> r.ret]
               ELSE [first_features EXCEPT !.calls = 2]

NextMatcher == CallCountNear
NextFeatures == CallGetFeatures \/ CallTimeFeatures
NextClassifier == CallIsValidRecurring
NextGaps == CallTemporal \/ CallFrequency
NextCache == CallGetFeatures \/ CallParseDate

Next ==
    \/ CallPctNear
    \/ CallPctSameDay
    \/ CallPctSameAmount
    \/ CallTemporal
    \/ CallVendorProfile
    \/ CallUserRecurrenceRate
    \/ CallUserVendorRecurrenceRate
    \/ CallUserVendorRelationship

Spec == Init /\ [][Next]_vars
SpecFeatures == InitFeatures /\ [][NextFeatures]_vars
SpecMatcher == InitMatcher /\ [][NextMatcher]_vars
SpecClassifier == InitClassifier /\ [][NextClassifier]_vars
SpecGaps == InitGaps /\ [][NextGaps]_vars
SpecCache == InitCache /\ [][NextCache]_vars


(***************************************************************************)
(* Properties.                                                             *)
(***************************************************************************)
PctOps == {"get_pct_transactions_days_apart", "get_pct_transactions_same_day",
           "get_percent_transactions_same_amount"}

TargetInHistory == transaction \in SetOf(all_transactions)

\* |candidate date - target date| in days
DayDiff(x) == Abs(toordinal(strptime(x.date)) - toordinal(strptime(transaction.date)))

\* 0 <= r <= 1
InUnit(r) == 0 <= r[1] /\ r[1] <= r[2] /\ r[2] > 0

\* C1: when the history is empty, every percentage function returns 0.0 and
\* raises no exception.
C1_EmptyHistoryGivesZero ==
    (all_transactions = <<>> /\ result.op \in PctOps)
        => (result.exc = "none" /\ result.ret = Zero)

\* every key a scorer or an item of get_features can emit
FeatureKeys ==
    {"user_recurring_vendor_count", "user_transaction_frequency", "vendor_amount_std",
     "vendor_recurring_user_count", "vendor_transaction_frequency",
     "user_vendor_transaction_count", "user_vendor_recurrence_rate",
     "user_vendor_interaction_count", "amount_category", "is_common_recurring_amount",
     "is_common_for_vendor", "amount_decimal_part", "temporal_consistency_score",
     "is_monthly_consistent", "is_weekly_consistent", "vendor_recurrence_score",
     "vendor_recurrence_consistency", "vendor_is_common_recurring",
     "user_vendor_dependency", "user_vendor_tenure", "user_vendor_transaction_span",
     "n_transactions_same_amount", "percent_transactions_same_amount", "frequency",
     "date_variability", "median_frequency", "std_frequency", "is_amount_rounded",
     "n_transactions_with_vendor", "avg_amount_for_vendor", "month",
     "days_until_next_transaction", "user_recurrence_rate", "is_recurring",
     "user_transaction_count", "user_recurring_transaction_count",
     "user_recurring_transaction_rate", "ends_in_99", "amount", "same_day_exact",
     "pct_transactions_same_day", "same_day_off_by_1", "same_day_off_by_2",
     "14_days_apart_exact", "pct_14_days_apart_exact", "14_days_apart_off_by_1",
     "pct_14_days_apart_off_by_1", "7_days_apart_exact", "pct_7_days_apart_exact",
     "7_days_apart_off_by_1", "pct_7_days_apart_off_by_1", "is_insurance", "is_utility",
     "is_phone", "is_always_recurring"}

\* C2: for every transaction and every history of well-formed dates (the history
\* may be empty or not contain the transaction) get_features returns a mapping
\* with the one fixed key set: it does not raise and omits no key.
C2_FixedKeysNoFailure ==
    result.op = "get_features"
        => (result.exc = "none" /\ DOMAIN result.ret = FeatureKeys)

\* C3: the items merged by get_features have pairwise disjoint key sets, so the
\* vector holds both amount buckets, floor(amount / 10) and the threshold bucket,
\* each as its scorer returned it.
C3_BothBucketsKept ==
    (result.op = "get_features" /\ result.exc = "none")
        => LET items == feature_items(days_apart_items(<<>>, transaction, all_transactions),
                                      transaction, all_transactions)
               floor_bucket == get_amount_features(transaction)
               threshold_bucket == get_amount_category(transaction)
           IN  /\ \A i, j \in DOMAIN items :
                      i < j => DOMAIN items[i] \cap DOMAIN items[j] = {}
               /\ \A k \in DOMAIN floor_bucket : result.ret[k] = floor_bucket[k]
               /\ \A k \in DOMAIN threshold_bucket : result.ret[k] = threshold_bucket[k]

\* C4: for a non-empty history that contains the transaction, every ratio
\* feature lies in [0, 1] (and the call does not raise).
C4_RatiosInUnitInterval ==
    (all_transactions # <<>> /\ TargetInHistory)
        => /\ result.op \in PctOps => (result.exc = "none" /\ InUnit(result.ret))
           /\ result.op = "get_user_recurrence_rate"
                  => InUnit(result.ret["user_recurrence_rate"])
           /\ result.op = "get_user_vendor_recurrence_rate"
                  => InUnit(result.ret["user_vendor_recurrence_rate"])
           /\ result.op = "get_user_vendor_relationship_features"
                  => InUnit(result.ret["user_vendor_dependency"])
           /\ result.op = "get_vendor_recurrence_profile"
                  => /\ InUnit(result.ret["vendor_recurrence_score"])
                     /\ InUnit(result.ret["vendor_recurrence_consistency"])
           /\ result.op = "get_temporal_consistency_features"
                  => InUnit(result.ret["temporal_consistency_score"])

\* a ratio strictly between 0 and 1 came back for a transaction of the history
C4_Witness ==
    /\ TargetInHistory
    /\ result.op = "get_user_vendor_relationship_features"
    /\ result.ret["user_vendor_dependency"] = <<1, 2>>

\* C5: for a fixed target, candidate list and interval, a larger tolerance never
\* gives a smaller count.
C5_MonotoneInTolerance ==
    result.op = "get_n_transactions_days_apart"
        => \A off2 \in result.args[2]..MaxOff :
               result.ret <= get_n_transactions_days_apart(
                                 cache, transaction, all_transactions,
                                 result.args[1], off2).ret

\* a count that a larger tolerance strictly raises
C5_Witness ==
    /\ result.op = "get_n_transactions_days_apart"
    /\ \E off2 \in result.args[2]..MaxOff :
           result.ret < get_n_transactions_days_apart(
                            cache, transaction, all_transactions,
                            result.args[1], off2).ret

\* C6: the count is the number of candidates, with multiplicity, whose day
\* difference d satisfies d >= n - off and (d mod n <= off or d mod n >= n - off);
\* a candidate on the target's own day is counted only when off >= n.
C6_CountIsExact ==
    result.op = "get_n_transactions_days_apart"
        => LET n == result.args[1]
               off == result.args[2]
               Counted(i) ==
                   LET d == DayDiff(all_transactions[i])
                   IN  d >= n - off /\ (d % n <= off \/ d % n >= n - off)
               same_day == {i \in DOMAIN all_transactions :
                               DayDiff(all_transactions[i]) = 0}
           IN  /\ result.ret = Cardinality({i \in DOMAIN all_transactions : Counted(i)})
               /\ off < n => result.ret <= Len(all_transactions) - Cardinality(same_day)
               /\ off >= n => result.ret >= Cardinality(same_day)

\* some candidates are counted while one on the target's own day is not
C6_Witness ==
    /\ result.op = "get_n_transactions_days_apart"
    /\ result.args[2] < result.args[1]
    /\ \E i \in DOMAIN all_transactions : DayDiff(all_transactions[i]) = 0
    /\ result.ret >= 1

\* C7: the classifier decides on the lower-cased name: apple passes exactly when
\* the cents are 99, brigit exactly on 9.99 or 14.99, cleo ai on 3.99 or 6.99,
\* credit genie on 3.49 or 4.99, and every other vendor passes whatever the amount.
C7_ClassifierTable ==
    result.op = "is_valid_recurring_transaction"
        => LET name == transaction.name
               amount == transaction.amount
           IN  result.ret =
                   (CASE name \in {name_Apple, name_apple, name_APPLE} -> amount % 100 = 99
                      [] name = name_Brigit -> amount \in {999, 1499}
                      [] name = name_Cleo_AI -> amount \in {399, 699}
                      [] name = name_Credit_Genie -> amount \in {349, 499}
                      [] OTHER -> TRUE)

\* "Apple" with 4.99 was classified, and passed
C7_Witness ==
    /\ result.op = "is_valid_recurring_transaction"
    /\ transaction.name = name_Apple
    /\ transaction.amount = 499
    /\ result.ret = TRUE

\* the day gaps between the consecutive dates of the transaction's vendor
VendorGaps == date_diffs_of(sorted_dates(by_name(transaction, all_transactions)))
GapsIn(lo, hi) == Cardinality({i \in DOMAIN VendorGaps : lo <= VendorGaps[i] /\ VendorGaps[i] <= hi})

\* C8: with fewer than 3 vendor transactions the score is 0.0 and both flags 0;
\* otherwise is_monthly_consistent is 1 exactly when more than 0.7 of the gaps are
\* in [28, 31], is_weekly_consistent exactly when more than 0.7 are in [6, 8], and
\* the score is the average of the two fractions; three transactions 28 days
\* apart give monthly 1 and weekly 0.
C8_TemporalConsistency ==
    result.op = "get_temporal_consistency_features"
        => LET n == Len(VendorGaps)
               monthly == GapsIn(28, 31)
               weekly == GapsIn(6, 8)
               r == result.ret
           IN  /\ DOMAIN r = {"temporal_consistency_score", "is_monthly_consistent",
                              "is_weekly_consistent"}
               /\ IF Len(by_name(transaction, all_transactions)) < 3
                  THEN /\ r["temporal_consistency_score"] = Zero
                       /\ r["is_monthly_consistent"] = Zero
                       /\ r["is_weekly_consistent"] = Zero
                  ELSE /\ r["is_monthly_consistent"] = Bool(10 * monthly > 7 * n)
                       /\ r["is_weekly_consistent"] = Bool(10 * weekly > 7 * n)
                       /\ r["temporal_consistency_score"] = Rat(monthly + weekly, 2 * n)
               /\ (VendorGaps = <<28, 28>>)
                      => (r["is_monthly_consistent"] = Num(1)
                          /\ r["is_weekly_consistent"] = Num(0))

\* the three transactions of 2024-01-01, 2024-01-29 and 2024-02-26 were scored
C8_Witness ==
    /\ result.op = "get_temporal_consistency_features"
    /\ transaction.name = name_Spotify
    /\ Len(all_transactions) = 3
    /\ VendorGaps = <<28, 28>>
    /\ result.ret["is_monthly_consistent"] = Num(1)

\* C9: a second get_features call with the same arguments returns what the first
\* returned, whatever the date cache holds by then, and no call changes the
\* transaction or the history.
C9_Idempotent ==
    [][/\ all_transactions' = all_transactions
       /\ transaction' = transaction
       /\ result'.op = "get_features"
              => /\ result'.exc = first_features'.exc
                 /\ result'.exc = "none" => result'.ret = first_features'.ret]_vars

\* a repeated call returned while the cache was full and had evicted the
\* transaction's own date
C9_Witness ==
    /\ result.op = "get_features"
    /\ result.exc = "none"
    /\ first_features.calls = 2
    /\ Len(cache) = CacheSize
    /\ \A i \in DOMAIN cache : cache[i].key # transaction.date

\* C10 as stated: with fewer than 2 vendor transactions the three features are
\* 0.0; otherwise frequency is the mean gap and median_frequency the lower-middle
\* element of the sorted gaps.
C10_LowerMiddleMedian ==
    result.op = "get_frequency_features"
        => LET r == result.ret
               n == Len(VendorGaps)
           IN  IF Len(by_name(transaction, all_transactions)) < 2
               THEN r["frequency"] = Zero /\ r["median_frequency"] = Zero
                    /\ r["std_frequency"] = Zero
               ELSE /\ r["frequency"] = Rat(Sum(VendorGaps), n)
                    /\ r["median_frequency"]
                           = Num(Sorted(VendorGaps, IntLess)[(n + 1) \div 2])

\* C10 amended: with fewer than 2 vendor transactions the three features are
\* 0.0; otherwise frequency is the mean gap and median_frequency is the element
\* at index len // 2 of the sorted gaps: the middle one of an odd number of gaps,
\* the upper-middle one of an even number; always an element of the list.
C10_FloorIndexMedian ==
    result.op = "get_frequency_features"
        => LET r == result.ret
               n == Len(VendorGaps)
               ascending == Sorted(VendorGaps, IntLess)
           IN  IF Len(by_name(transaction, all_transactions)) < 2
               THEN r["frequency"] = Zero /\ r["median_frequency"] = Zero
                    /\ r["std_frequency"] = Zero
               ELSE /\ r["frequency"] = Rat(Sum(VendorGaps), n)
                    /\ r["median_frequency"]
                           = Num(ascending[IF n % 2 = 1 THEN (n + 1) \div 2 ELSE n \div 2 + 1])
                    /\ \E i \in DOMAIN VendorGaps : r["median_frequency"] = Num(VendorGaps[i])

\* an even number of gaps whose two middle elements differ
C10_Witness ==
    /\ result.op = "get_frequency_features"
    /\ Len(VendorGaps) = 2
    /\ VendorGaps[1] # VendorGaps[2]
    /\ result.ret["median_frequency"] = Num(Max(VendorGaps))

\* the history transactions whose lower-cased name is the transaction's
VendorGroup ==
    {i \in DOMAIN all_transactions :
        lower(all_transactions[i].name) = lower(transaction.name)}
GroupUsers == {all_transactions[i].user_id : i \in VendorGroup}
GroupRecurringUsers ==
    {u \in GroupUsers :
        \E i \in VendorGroup : /\ all_transactions[i].user_id = u
                               /\ is_valid_recurring_transaction(all_transactions[i])}
\* occurrences in the group of the amount a
GroupAmountCount(a) == Cardinality({i \in VendorGroup : all_transactions[i].amount = a})

\* C11: get_vendor_recurrence_profile groups the history by lower-cased vendor
\* name; for a non-empty group vendor_recurrence_score is (distinct users of the
\* group with a transaction passing is_valid_recurring_transaction) / (distinct
\* users of the group) and vendor_recurrence_consistency is (occurrences of the
\* group's most frequent amount) / (group size); for an empty group all three
\* outputs are 0.
C11_VendorProfile ==
    result.op = "get_vendor_recurrence_profile"
        => LET r == result.ret
           IN  /\ DOMAIN r = {"vendor_recurrence_score", "vendor_recurrence_consistency",
                              "vendor_is_common_recurring"}
               /\ IF VendorGroup = {}
                  THEN /\ r["vendor_recurrence_score"] = Zero
                       /\ r["vendor_recurrence_consistency"] = Zero
                       /\ r["vendor_is_common_recurring"] = Zero
                  ELSE /\ r["vendor_recurrence_score"]
                              = Rat(Cardinality(GroupRecurringUsers), Cardinality(GroupUsers))
                       /\ \E i \in VendorGroup :
                              LET top == GroupAmountCount(all_transactions[i].amount)
                              IN  /\ \A j \in VendorGroup :
                                         GroupAmountCount(all_transactions[j].amount) <= top
                                  /\ r["vendor_recurrence_consistency"]
                                         = Rat(top, Cardinality(VendorGroup))

\* a group of three whose names differ in case only, whose first amount is not
\* the most frequent one, and of whose two users one has no recurring transaction
C11_Witness ==
    /\ result.op = "get_vendor_recurrence_profile"
    /\ Cardinality(VendorGroup) = 3
    /\ \E i, j \in VendorGroup : all_transactions[i].name # all_transactions[j].name
    /\ GroupAmountCount(all_transactions[1].amount) = 1
    /\ result.ret["vendor_recurrence_consistency"] = <<2, 3>>
    /\ Cardinality(GroupUsers) = 2
    /\ result.ret["vendor_recurrence_score"] = <<1, 2>>

\* C12: is_monthly_consistent and is_weekly_consistent are never both 1 and
\* temporal_consistency_score is never above 0.5, whatever the transaction and
\* the history.
C12_FlagsExclusiveScoreAtMostHalf ==
    result.op = "get_temporal_consistency_features"
        => LET r == result.ret
               score == r["temporal_consistency_score"]
           IN  /\ ~(r["is_monthly_consistent"] = Num(1) /\ r["is_weekly_consistent"] = Num(1))
               /\ r["is_monthly_consistent"] \in {Num(0), Num(1)}
               /\ r["is_weekly_consistent"] \in {Num(0), Num(1)}
               /\ score[2] > 0
               /\ 2 * score[1] <= score[2]

\* every gap of the vendor is weekly: one flag is 1 and the score is at its bound
C12_Witness ==
    /\ result.op = "get_temporal_consistency_features"
    /\ Len(VendorGaps) = 2
    /\ GapsIn(6, 8) = 2
    /\ result.ret["is_weekly_consistent"] = Num(1)
    /\ result.ret["is_monthly_consistent"] = Num(0)
    /\ result.ret["temporal_consistency_score"] = <<1, 2>>

\* the day numbers of the history transactions with the transaction's exact name
Ordinal(x) == toordinal(strptime(x.date))
VendorIndexes == {i \in DOMAIN all_transactions : all_transactions[i].name = transaction.name}
SameDateIndexes ==
    {i \in VendorIndexes : Ordinal(all_transactions[i]) = Ordinal(transaction)}
LaterOrdinals ==
    {Ordinal(all_transactions[i]) : i \in VendorIndexes} \ (0..Ordinal(transaction))

\* C13: when a history transaction has the transaction's name and date,
\* get_time_features returns a days_until_next_transaction that is not negative:
\* 0 when another vendor transaction shares the date or when no vendor date is
\* later, else the gap to the vendor's next later date; when no history
\* transaction has the name and date, get_time_features and get_features raise.
C13_DaysUntilNext ==
    /\ result.op = "get_time_features"
           => IF SameDateIndexes = {}
              THEN result.exc # "none"
              ELSE /\ result.exc = "none"
                   /\ result.ret["days_until_next_transaction"][1] >= 0
                   /\ result.ret["days_until_next_transaction"]
                          = Num(IF Cardinality(SameDateIndexes) >= 2 \/ LaterOrdinals = {}
                                THEN 0
                                ELSE (CHOOSE o \in LaterOrdinals :
                                          \A q \in LaterOrdinals : o <= q)
                                     - Ordinal(transaction))
    /\ (result.op = "get_features" /\ SameDateIndexes = {}) => result.exc # "none"

\* two vendor transactions share the transaction's date and a later vendor date
\* exists: the gap returned is 0
C13_Witness ==
    /\ result.op = "get_time_features"
    /\ Cardinality(SameDateIndexes) = 2
    /\ LaterOrdinals # {}
    /\ result.exc = "none"
    /\ result.ret["days_until_next_transaction"] = Num(0)

====
